---- MODULE Spec2Model ----
(***************************************************************************)
(* State-machine model of HotSpot's interned-string table                  *)
(* (src/hotspot/share/classfile/stringTable.cpp).                          *)
(*                                                                         *)
(* Processes: NumThreads mutator threads calling lookup / intern, the      *)
(* collector (Collect, GcNotify), the service thread running               *)
(* do_concurrent_work (grow or bulk delete, in chunks with yield points),  *)
(* the VM thread running rehash_table at a safepoint, a thread scanning    *)
(* the table (verify_and_compare_entries) and the one-time transfer of the *)
(* shared (archived) strings.                                              *)
(*                                                                         *)
(* Spec composes all of them.  The scenario specifications that follow it  *)
(* take the same actions for a part of the system: SpecLive and SpecServe  *)
(* with every mutator thread, the others with one caller next to the       *)
(* collector, the service thread, the VM thread and the scan.              *)
(*                                                                         *)
(* The ConcurrentHashTable template, the weak storage and the hash         *)
(* functions are not part of stringTable.cpp; they are modelled from the   *)
(* specification's description of them (see MODEL_MAP.json).               *)
(***************************************************************************)
EXTENDS Integers, FiniteSets, Sequences, TLC

(* ---- bounds of the model ---- *)
NumThreads == 2
NumVals == 2
MaxObjs == 3
\* log2 of the largest table of the model (END_SIZE, 24 in the source, scaled)
MaxSizeLog2 == 1
\* chain length that raises the alarm (REHASH_LEN, 100 in the source, scaled)
ChainAlarmLen == 1
MaxNumDead == 2
NumSeeds == 1
\* contents 1..NumShared may be in the archive
NumShared == 1
\* distinct values of the sequential scenario
NumValsSeq == 3
\* seeds that AltHashing::compute_seed can draw in the seed scenario
NumSeedsEpoch == 2

(* ---- program constants ---- *)
\* const double PREF_AVG_LIST_LEN = 2.0
PREF_AVG_LIST_LEN == 2
\* const double CLEAN_DEAD_HIGH_WATER_MARK = 0.5, as the fraction 1/2
CLEAN_DEAD_HIGH_WATER_MARK_NUM == 1
CLEAN_DEAD_HIGH_WATER_MARK_DEN == 2

Threads == 1..NumThreads
Vals == 1..NumVals
Objs == 1..MaxObjs
\* the archived string with content v is the object -v
SharedObjs == {0 - v : v \in Vals}
AllObjs == Objs \cup SharedObjs
NULL == 0
Seeds == 1..NumSeeds
Buckets == 0..((2 ^ (MaxSizeLog2 + 1)) - 1)

VARIABLES
  shared_table,       \* _shared_table: contents of the archived strings
  buckets,            \* _local_table: bucket index -> set of linked slots
  size_log2,          \* _local_table->_log2_size
  new_buckets,        \* the table a GrowTask is filling
  cursor,             \* next bucket of the running task
  resize_lock_owner,  \* _resize_lock_owner: "none", "service", "scan"
  items_count,        \* _items_count
  current_size,       \* _current_size
  has_work,           \* _has_work
  needs_rehashing,    \* _needs_rehashing
  alt_hash,           \* _alt_hash
  alt_hash_seed,      \* _alt_hash_seed
  rehashed,           \* static bool rehashed in rehash_table
  objval,             \* heap: object -> content (0: not allocated)
  dead,               \* objects the collector has cleared
  acquired,           \* weak storage: cells ever allocated for the object
  released,           \* weak storage: cells released for the object
  pc, arg, hash, str, ret,   \* the mutator threads
  spc, task,          \* the service thread
  vmpc,               \* the VM thread (rehash at a safepoint)
  num_dead,           \* argument of the last recorded gc_notification
  ev,                 \* the maintenance event of the latest step, or "none"
  end_size,           \* END_SIZE: log2 of the maximum size of the table
  st                  \* outputStream* st: what the dump of the latest step wrote

vars == <<shared_table, buckets, size_log2, new_buckets, cursor,
          resize_lock_owner, items_count, current_size, has_work,
          needs_rehashing, alt_hash, alt_hash_seed, rehashed, objval, dead,
          acquired, released, pc, arg, hash, str, ret, spc, task, vmpc,
          num_dead, ev, end_size, st>>

tableVars == <<buckets, size_log2, new_buckets, cursor>>
flagVars == <<alt_hash, alt_hash_seed, rehashed>>
heapVars == <<objval, dead>>
cellVars == <<acquired, released>>
threadVars == <<pc, arg, hash, str, ret>>
serviceVars == <<spc, task>>

(* ---- hashing ---- *)
\* java_lang_String::hash_code
DefaultHash(v) == v
\* AltHashing::halfsiphash_32(seed, s, len)
AltHash(seed, v) == v + seed

hash_string(v, useAlt) ==
  IF useAlt THEN AltHash(alt_hash_seed, v) ELSE DefaultHash(v)

Content(o) == IF o < 0 THEN 0 - o ELSE objval[o]

\* get_hash that hashes with java_lang_String::hash_code whatever _alt_hash is
get_hash_NoAlt(o) == DefaultHash(Content(o))
\* StringTableConfig::get_hash for a live value (is_dead is o \in dead)
get_hash(o) == hash_string(Content(o), alt_hash)

(* ---- the concurrent hash table ---- *)
Index(h, lg) == h % (2 ^ lg)
EmptyTable == [b \in Buckets |-> {}]
InGrow == task = "grow" /\ spc \in {"chunk", "paused", "commit"}
InFlight == spc \in {"chunk", "paused", "commit"}
\* is_max_size_reached that never reports the maximum
is_max_size_reached_Never == FALSE
is_max_size_reached == size_log2 = end_size
is_safepoint_safe == resize_lock_owner = "none"
table_size == 2 ^ size_log2

\* the bucket a hash addresses: a bucket the grow task has already moved
\* redirects to the new table
Redirected(h) == InGrow /\ Index(h, size_log2) < cursor
ChainFor(h) ==
  IF Redirected(h) THEN new_buckets[Index(h, size_log2 + 1)]
  ELSE buckets[Index(h, size_log2)]

Linked ==
  UNION {buckets[b] : b \in Buckets} \cup UNION {new_buckets[b] : b \in Buckets}
LiveSlots == Linked \ dead

\* equals that compares the content of a cleared weak handle as well
Matches_IgnoringDeath(chain, v) == {o \in chain : Content(o) = v}
\* StringTableLookupJchar::equals / StringTableLookupOop::equals over a chain:
\* a dead slot is no match, a live slot matches by content
Matches(chain, v) == {o \in chain : o \notin dead /\ Content(o) = v}
\* the results get() can deliver for hash h and content v
GetResults(h, v) ==
  IF Matches(ChainFor(h), v) = {} THEN {NULL} ELSE Matches(ChainFor(h), v)
\* the rehash_warning of get/insert: the chain is longer than the alarm length
Warning(h) == Cardinality(ChainFor(h)) > ChainAlarmLen

\* the table with slot o linked into the bucket that hash h addresses
LinkOld(h, o) ==
  IF Redirected(h) THEN buckets
  ELSE [buckets EXCEPT ![Index(h, size_log2)] = @ \cup {o}]
LinkNew(h, o) ==
  IF Redirected(h) THEN [new_buckets EXCEPT ![Index(h, size_log2 + 1)] = @ \cup {o}]
  ELSE new_buckets

(* ---- accounting ---- *)
\* a double that is the quotient of two counts is kept as <<numerator,
\* denominator>>: the divisions are by _current_size, a power of two, and are
\* exact for the counts of the model
\* get_load_factor with the operands of the division swapped
get_load_factor_Swapped == <<current_size, items_count>>
\* double StringTable::get_load_factor()
get_load_factor == <<items_count, current_size>>
\* double StringTable::get_dead_factor(size_t num_dead)
get_dead_factor(n) == <<n, current_size>>
\* x > y on such quotients (the denominators are positive)
Gt(x, y) == x[1] * y[2] > y[1] * x[2]

\* get_load_factor() > PREF_AVG_LIST_LEN
LoadAbovePreferred == Gt(get_load_factor, <<PREF_AVG_LIST_LEN, 1>>)
\* the condition under which gc_notification triggers concurrent work
\* NeedsWork with dead_factor >= CLEAN_DEAD_HIGH_WATER_MARK in place of >
NeedsWork_AtHighWaterMark(n) ==
  \/ Gt(get_dead_factor(n), get_load_factor)
  \/ Gt(get_load_factor, <<PREF_AVG_LIST_LEN, 1>>)
  \/ ~Gt(<<CLEAN_DEAD_HIGH_WATER_MARK_NUM, CLEAN_DEAD_HIGH_WATER_MARK_DEN>>,
         get_dead_factor(n))
NeedsWork(n) ==
  \/ Gt(get_dead_factor(n), get_load_factor)
  \/ Gt(get_load_factor, <<PREF_AVG_LIST_LEN, 1>>)
  \/ Gt(get_dead_factor(n),
        <<CLEAN_DEAD_HIGH_WATER_MARK_NUM, CLEAN_DEAD_HIGH_WATER_MARK_DEN>>)

FreeObjs == {o \in Objs : objval[o] = 0}
NewObj == CHOOSE o \in FreeObjs : \A p \in FreeObjs : o <= p
Held(o) == \E t \in Threads : str[t] = o \/ ret[t] = o

\* a thread stops for a safepoint only where it can block: outside a call and
\* in the allocation of create_from_unicode; the service thread at its yield
AtSafepoint ==
  /\ \A t \in Threads : pc[t] \in {"idle", "alloc", "done"}
  /\ spc \in {"idle", "paused"}
  /\ resize_lock_owner # "scan"

\* the state after create_table: the archive holds the strings of content sh,
\* the table has 2 ^ lg empty buckets and may grow to 2 ^ es
InitState(sh, lg, es) ==
  /\ shared_table = sh
  /\ buckets = EmptyTable
  /\ size_log2 = lg
  /\ new_buckets = EmptyTable
  /\ cursor = 0
  /\ resize_lock_owner = "none"
  /\ items_count = 0
  /\ current_size = 2 ^ size_log2
  /\ has_work = FALSE
  /\ needs_rehashing = FALSE
  /\ alt_hash = FALSE
  /\ alt_hash_seed = 0
  /\ rehashed = FALSE
  /\ objval = [o \in Objs |-> 0]
  /\ dead = {}
  /\ acquired = [o \in AllObjs |-> 0]
  /\ released = [o \in AllObjs |-> 0]
  /\ pc = [t \in Threads |-> "idle"]
  /\ arg = [t \in Threads |-> 0]
  /\ hash = [t \in Threads |-> 0]
  /\ str = [t \in Threads |-> NULL]
  /\ ret = [t \in Threads |-> NULL]
  /\ spc = "idle"
  /\ task = "none"
  /\ vmpc = "idle"
  /\ num_dead = 0
  /\ ev = "none"
  /\ end_size = es
  /\ st = << >>

Init ==
  \E sh \in SUBSET (1..NumShared), lg \in 0..MaxSizeLog2 :
    InitState(sh, lg, MaxSizeLog2)

(* ---- mutator threads: StringTable::lookup and StringTable::intern ---- *)
\* the call returns r: the locals of the call (name, string_h, the hash) are
\* gone, the caller holds the result
Return(t, r) ==
  /\ pc' = [pc EXCEPT ![t] = "done"]
  /\ ret' = [ret EXCEPT ![t] = r]
  /\ arg' = [arg EXCEPT ![t] = 0]
  /\ str' = [str EXCEPT ![t] = NULL]
  /\ hash' = [hash EXCEPT ![t] = 0]

update_needs_rehash(w) == needs_rehashing' = (needs_rehashing \/ w)

\* allocate_node without its call of item_added()
item_added_Skipped == items_count' = items_count
\* size_t StringTable::item_added()
item_added == items_count' = items_count + 1
\* free_node without its call of item_removed()
item_removed_Skipped == items_count' = items_count
\* void StringTable::item_removed()
item_removed == items_count' = items_count - 1

\* lookup_shared that never finds the value
lookup_shared_Miss(v) == NULL
\* lookup_shared that finds an archived string for every content
lookup_shared_Always(v) == 0 - v
\* oop StringTable::lookup_shared(const jchar* name, int len, unsigned int hash)
lookup_shared(v) == IF v \in shared_table THEN 0 - v ELSE NULL

\* oop StringTable::lookup(const jchar* name, int len)
StartLookup(t, v) ==
  /\ vmpc = "idle" /\ pc[t] = "idle"
  /\ ev' = "none"
  /\ IF lookup_shared(v) # NULL
     THEN Return(t, lookup_shared(v)) /\ UNCHANGED needs_rehashing
     ELSE LET h == hash_string(v, alt_hash) IN
          /\ \E r \in GetResults(h, v) : Return(t, r)
          /\ update_needs_rehash(Warning(h))
  /\ UNCHANGED <<shared_table, tableVars, resize_lock_owner, items_count,
                 current_size, has_work, flagVars, heapVars, cellVars,
                 serviceVars, vmpc, num_dead,
                 end_size>>
  /\ st' = << >>

\* oop StringTable::intern(Handle string_or_null_h, const jchar* name, int len):
\* the shared lookup, the hash under the current _alt_hash and do_lookup. On a
\* miss the call goes on to do_intern with the caller's string (withString) or
\* to the allocation of a new one.
StartIntern(t, v, withString) ==
  /\ vmpc = "idle" /\ pc[t] = "idle"
  /\ ev' = "none"
  /\ IF lookup_shared(v) # NULL
     THEN Return(t, lookup_shared(v)) /\ UNCHANGED <<needs_rehashing, objval>>
     ELSE LET h == hash_string(v, alt_hash) IN
          /\ update_needs_rehash(Warning(h))
          /\ \E r \in GetResults(h, v) :
               IF r # NULL
               THEN Return(t, r) /\ UNCHANGED objval
               ELSE /\ Cardinality(FreeObjs)
                         > Cardinality({u \in Threads : pc[u] = "alloc"})
                    /\ hash' = [hash EXCEPT ![t] = h]
                    /\ arg' = [arg EXCEPT ![t] = v]
                    /\ ret' = ret
                    /\ IF withString
                       THEN /\ objval' = [objval EXCEPT ![NewObj] = v]
                            /\ str' = [str EXCEPT ![t] = NewObj]
                            /\ pc' = [pc EXCEPT ![t] = "insert"]
                       ELSE /\ pc' = [pc EXCEPT ![t] = "alloc"]
                            /\ UNCHANGED <<str, objval>>
  /\ UNCHANGED <<shared_table, tableVars, resize_lock_owner, items_count,
                 current_size, has_work, flagVars, dead, cellVars,
                 serviceVars, vmpc, num_dead,
                 end_size>>
  /\ st' = << >>

\* do_intern: string_h = java_lang_String::create_from_unicode(name, len),
\* the allocation in which the thread can have been stopped for a safepoint;
\* then the first WeakHandle wh(_oop_storage, string_h) and the node of
\* insert() (StringTableConfig::allocate_node calls item_added())
Alloc(t) ==
  /\ vmpc = "idle" /\ pc[t] = "alloc"
  /\ ev' = "none"
  /\ objval' = [objval EXCEPT ![NewObj] = arg[t]]
  /\ str' = [str EXCEPT ![t] = NewObj]
  /\ acquired' = [acquired EXCEPT ![NewObj] = @ + 1]
  /\ item_added
  /\ pc' = [pc EXCEPT ![t] = "cas"]
  /\ UNCHANGED <<shared_table, tableVars, resize_lock_owner,
                 current_size, has_work, needs_rehashing, flagVars, dead,
                 released, arg, hash, ret, serviceVars, vmpc, num_dead,
                 end_size>>
  /\ st' = << >>

\* do_intern: WeakHandle wh(_oop_storage, string_h), and the node of insert():
\* StringTableConfig::allocate_node calls item_added()
InsertBegin(t) ==
  /\ vmpc = "idle" /\ pc[t] = "insert"
  /\ ev' = "none"
  /\ acquired' = [acquired EXCEPT ![str[t]] = @ + 1]
  /\ item_added
  /\ pc' = [pc EXCEPT ![t] = "cas"]
  /\ UNCHANGED <<shared_table, tableVars, resize_lock_owner, current_size,
                 has_work, needs_rehashing, flagVars, heapVars, released,
                 arg, hash, str, ret, serviceVars, vmpc, num_dead,
                 end_size>>
  /\ st' = << >>

\* do_intern: _local_table->insert(THREAD, lookup, wh, &rehash_warning) under
\* the hash the caller computed: link the node and return wh.resolve(), or,
\* when the bucket holds a live equal value, free the node
\* (StringTableConfig::free_node: release, item_removed) and go to get()
InsertCas(t) ==
  /\ vmpc = "idle" /\ pc[t] = "cas"
  /\ ev' = "none"
  /\ LET h == hash[t]
         o == str[t]
     IN IF Matches(ChainFor(h), Content(o)) = {}
        THEN /\ buckets' = LinkOld(h, o)
             /\ new_buckets' = LinkNew(h, o)
             /\ update_needs_rehash(Warning(h))
             /\ Return(t, o)
             /\ UNCHANGED <<released, items_count>>
        ELSE /\ released' = [released EXCEPT ![o] = @ + 1]
             /\ item_removed
             /\ pc' = [pc EXCEPT ![t] = "get"]
             /\ UNCHANGED <<buckets, new_buckets, needs_rehashing, ret, hash,
                            str, arg>>
  /\ UNCHANGED <<shared_table, size_log2, cursor, resize_lock_owner,
                 current_size, has_work, flagVars, heapVars, acquired,
                 serviceVars, vmpc, num_dead,
                 end_size>>
  /\ st' = << >>

\* do_intern: _local_table->get(THREAD, lookup, stg, &rehash_warning); loops
\* back to the insert when the value found by insert() has died meanwhile
GetAfterInsert(t) ==
  /\ vmpc = "idle" /\ pc[t] = "get"
  /\ ev' = "none"
  /\ \E r \in GetResults(hash[t], arg[t]) :
       IF r # NULL
       THEN Return(t, r) /\ update_needs_rehash(Warning(hash[t]))
       ELSE /\ pc' = [pc EXCEPT ![t] = "insert"]
            /\ UNCHANGED <<ret, needs_rehashing, hash, str, arg>>
  /\ UNCHANGED <<shared_table, tableVars, resize_lock_owner, items_count,
                 current_size, has_work, flagVars, heapVars, cellVars,
                 serviceVars, vmpc, num_dead,
                 end_size>>
  /\ st' = << >>

\* the caller drops the result; the thread is ready for its next call
Drop(t) ==
  /\ vmpc = "idle" /\ pc[t] = "done"
  /\ ev' = "none"
  /\ pc' = [pc EXCEPT ![t] = "idle"]
  /\ ret' = [ret EXCEPT ![t] = NULL]
  /\ UNCHANGED <<arg, hash, str>>
  /\ UNCHANGED <<shared_table, tableVars, resize_lock_owner, items_count,
                 current_size, has_work, needs_rehashing, flagVars, heapVars,
                 cellVars, serviceVars, vmpc, num_dead,
                 end_size>>
  /\ st' = << >>

(* ---- the collector ---- *)
\* a linked string nobody holds becomes unreachable: its weak handle is cleared
Collect(o) ==
  /\ vmpc = "idle"
  /\ ev' = "none"
  /\ o \in LiveSlots /\ ~Held(o)
  /\ dead' = dead \cup {o}
  /\ UNCHANGED <<shared_table, tableVars, resize_lock_owner, items_count,
                 current_size, has_work, needs_rehashing, flagVars, objval,
                 cellVars, threadVars, serviceVars, vmpc, num_dead,
                 end_size>>
  /\ st' = << >>

\* void StringTable::gc_notification(size_t num_dead): nothing when work is
\* already requested, else trigger_concurrent_work() when a threshold is passed
\* gc_notification without the early return on has_work()
gc_notification_NoEarlyReturn(n) ==
  /\ has_work' = NeedsWork(n)
  /\ UNCHANGED <<shared_table, tableVars, resize_lock_owner, items_count,
                 current_size, needs_rehashing, flagVars, heapVars, cellVars,
                 threadVars, serviceVars, vmpc, end_size>>
  /\ st' = << >>
gc_notification(n) ==
  /\ has_work' = IF has_work THEN TRUE ELSE NeedsWork(n)
  /\ UNCHANGED <<shared_table, tableVars, resize_lock_owner, items_count,
                 current_size, needs_rehashing, flagVars, heapVars, cellVars,
                 threadVars, serviceVars, vmpc, end_size>>
  /\ st' = << >>

\* the collector reports num_dead = n
GcNotify(n) ==
  /\ vmpc = "idle"
  /\ ev' = "none"
  /\ gc_notification(n)
  /\ UNCHANGED num_dead

\* the same call, with its argument kept for inspection
GcNotifyRec(n) ==
  /\ vmpc = "idle"
  /\ ev' = "gc"
  /\ gc_notification(n)
  /\ num_dead' = n

(* ---- the service thread: StringTable::do_concurrent_work ---- *)
\* the choice of do_concurrent_work: grow is preferred
\* SelectTask with load_factor >= PREF_AVG_LIST_LEN in place of >
SelectTask_AtPreferred ==
  IF items_count >= PREF_AVG_LIST_LEN * current_size /\ ~is_max_size_reached
  THEN "grow" ELSE "clean"
SelectTask ==
  IF LoadAbovePreferred /\ ~is_max_size_reached THEN "grow" ELSE "clean"

\* a prepare that succeeds whoever owns the resize lock
prepare_Always == TRUE
\* GrowTask::prepare / BulkDeleteTask::prepare: take the resize lock
prepare == resize_lock_owner = "none"

\* do_concurrent_work up to the prepare() of grow() or clean_dead_entries().
\* A task that cannot prepare returns at once, and do_concurrent_work ends
\* with Atomic::release_store(&_has_work, false).
\* DoConcurrentWork with the release_store of _has_work moved before the task
DoConcurrentWork_ClearsFirst ==
  /\ vmpc = "idle" /\ spc = "idle" /\ has_work
  /\ ev' = (IF prepare THEN "prepared" ELSE IF SelectTask = "grow" THEN "abandon_grow" ELSE "abandon_clean")
  /\ has_work' = FALSE
  /\ IF prepare
     THEN /\ resize_lock_owner' = "service"
          /\ task' = SelectTask
          /\ spc' = "chunk"
     ELSE UNCHANGED <<resize_lock_owner, task, spc>>
  /\ UNCHANGED <<shared_table, tableVars, items_count, current_size,
                 needs_rehashing, flagVars, heapVars, cellVars, threadVars,
                 vmpc, num_dead,
                 end_size>>
  /\ st' = << >>
DoConcurrentWork ==
  /\ vmpc = "idle" /\ spc = "idle" /\ has_work
  /\ ev' = (IF prepare THEN "prepared" ELSE IF SelectTask = "grow" THEN "abandon_grow" ELSE "abandon_clean")
  /\ IF prepare
     THEN /\ resize_lock_owner' = "service"
          /\ task' = SelectTask
          /\ spc' = "chunk"
          /\ UNCHANGED has_work
     ELSE /\ has_work' = FALSE
          /\ UNCHANGED <<resize_lock_owner, task, spc>>
  /\ UNCHANGED <<shared_table, tableVars, items_count, current_size,
                 needs_rehashing, flagVars, heapVars, cellVars, threadVars,
                 vmpc, num_dead,
                 end_size>>
  /\ st' = << >>

\* StringTableDeleteCheck that answers true for every slot
DeadIn_All(chain) == chain
\* StringTableDeleteCheck: the slots of a chain whose weak handle is cleared
DeadIn(chain) == chain \cap dead
\* free_node that calls item_removed() twice for a slot
FreeNodes_Twice(F) ==
  /\ released' = [o \in AllObjs |-> IF o \in F THEN released[o] + 1 ELSE released[o]]
  /\ items_count' = items_count - 2 * Cardinality(F)
  /\ dead' = dead \ F
\* StringTableConfig::free_node for a set of slots: release and item_removed
FreeNodes(F) ==
  /\ released' = [o \in AllObjs |-> IF o \in F THEN released[o] + 1 ELSE released[o]]
  /\ items_count' = items_count - Cardinality(F)
  /\ dead' = dead \ F

\* what do_task returns: buckets remain after this one
MoreWork == cursor + 1 < table_size
\* the loop of grow / clean_dead_entries without pause, yield and cont
AfterChunk_NoPause == IF MoreWork THEN "chunk" ELSE "commit"
AfterChunk == IF MoreWork THEN "paused" ELSE "commit"

\* gt.do_task(jt) for one bucket, then gt.pause(jt) when more remain: the live
\* slots of the bucket move to the bucket of the doubled table that their hash
\* addresses, the dead ones are freed
GrowChunk ==
  /\ vmpc = "idle" /\ spc = "chunk" /\ task = "grow"
  /\ ev' = "none"
  /\ LET old == buckets[cursor]
         live == old \ dead
     IN /\ new_buckets' = [b \in Buckets |-> new_buckets[b] \cup
               {o \in live : Index(get_hash(o), size_log2 + 1) = b}]
        /\ buckets' = [buckets EXCEPT ![cursor] = {}]
        /\ FreeNodes(DeadIn(old))
  /\ cursor' = cursor + 1
  /\ spc' = AfterChunk
  /\ UNCHANGED <<shared_table, size_log2, resize_lock_owner, current_size,
                 has_work, needs_rehashing, flagVars, objval, acquired,
                 threadVars, task, vmpc, num_dead,
                 end_size>>
  /\ st' = << >>

\* bdt.do_task(jt, stdc, stdd) for one bucket, then bdt.pause(jt)
CleanChunk ==
  /\ vmpc = "idle" /\ spc = "chunk" /\ task = "clean"
  /\ ev' = (IF DeadIn(buckets[cursor]) # {} THEN "reaped" ELSE "none")
  /\ buckets' = [buckets EXCEPT ![cursor] = @ \ DeadIn(@)]
  /\ FreeNodes(DeadIn(buckets[cursor]))
  /\ cursor' = cursor + 1
  /\ spc' = AfterChunk
  /\ UNCHANGED <<shared_table, size_log2, new_buckets, resize_lock_owner,
                 current_size, has_work, needs_rehashing, flagVars, objval,
                 acquired, threadVars, task, vmpc, num_dead,
                 end_size>>
  /\ st' = << >>

\* { ThreadBlockInVM tbivm(jt); } and cont(jt): the yield point is passed
Cont ==
  /\ vmpc = "idle" /\ spc = "paused"
  /\ ev' = "none"
  /\ spc' = "chunk"
  /\ UNCHANGED <<shared_table, tableVars, resize_lock_owner, items_count,
                 current_size, has_work, needs_rehashing, flagVars, heapVars,
                 cellVars, threadVars, task, vmpc, num_dead,
                 end_size>>
  /\ st' = << >>

\* grow without _current_size = table_size() after gt.done(jt)
Commit_StaleSize ==
  /\ vmpc = "idle" /\ spc = "commit"
  /\ ev' = task
  /\ IF task = "grow"
     THEN /\ buckets' = new_buckets
          /\ new_buckets' = EmptyTable
          /\ size_log2' = size_log2 + 1
          /\ UNCHANGED current_size
     ELSE UNCHANGED <<buckets, new_buckets, size_log2, current_size>>
  /\ cursor' = 0
  /\ resize_lock_owner' = "none"
  /\ has_work' = FALSE
  /\ task' = "none"
  /\ spc' = "idle"
  /\ UNCHANGED <<shared_table, items_count, needs_rehashing,
                 flagVars, heapVars, cellVars, threadVars, vmpc, num_dead,
                 end_size>>
  /\ st' = << >>
\* gt.done(jt); _current_size = table_size(): the doubled table becomes the
\* table. bdt.done(jt) only gives the resize lock back. do_concurrent_work
\* then ends with Atomic::release_store(&_has_work, false).
Commit ==
  /\ vmpc = "idle" /\ spc = "commit"
  /\ ev' = task
  /\ IF task = "grow"
     THEN /\ buckets' = new_buckets
          /\ new_buckets' = EmptyTable
          /\ size_log2' = size_log2 + 1
          /\ current_size' = 2 ^ (size_log2 + 1)
     ELSE UNCHANGED <<buckets, new_buckets, size_log2, current_size>>
  /\ cursor' = 0
  /\ resize_lock_owner' = "none"
  /\ has_work' = FALSE
  /\ task' = "none"
  /\ spc' = "idle"
  /\ UNCHANGED <<shared_table, items_count, needs_rehashing,
                 flagVars, heapVars, cellVars, threadVars, vmpc, num_dead,
                 end_size>>
  /\ st' = << >>

(* ---- a scan of the table: StringTable::verify_and_compare_entries ---- *)
\* _local_table->do_scan(thr, vcs) holds the resize lock for the scan
ScanBegin ==
  /\ vmpc = "idle" /\ resize_lock_owner = "none"
  /\ ev' = "none"
  /\ resize_lock_owner' = "scan"
  /\ UNCHANGED <<shared_table, tableVars, items_count, current_size, has_work,
                 needs_rehashing, flagVars, heapVars, cellVars, threadVars,
                 serviceVars, vmpc, num_dead,
                 end_size>>
  /\ st' = << >>

ScanEnd ==
  /\ vmpc = "idle" /\ resize_lock_owner = "scan"
  /\ ev' = "none"
  /\ resize_lock_owner' = "none"
  /\ UNCHANGED <<shared_table, tableVars, items_count, current_size, has_work,
                 needs_rehashing, flagVars, heapVars, cellVars, threadVars,
                 serviceVars, vmpc, num_dead,
                 end_size>>
  /\ st' = << >>

(* ---- StringTable::dump(st, verbose = true) ---- *)
\* try_scan that scans whoever owns the resize lock
try_scan_Always == TRUE
\* _local_table->try_scan(thr, ps): the scan runs only when the resize lock
\* can be taken
try_scan == resize_lock_owner = "none"

\* PrintString: a cleared weak handle prints nothing, a string prints its line
PrintString(o) == IF o \in dead THEN {} ELSE {Content(o)}

\* the sections of the verbose dump: the version line, the strings of the
\* local table or the line that tells that they cannot be scanned, and the
\* shared strings under their header when _shared_table is not empty
Dump ==
  /\ vmpc = "idle"
  /\ ev' = "dump"
  /\ st' = <<[line |-> "VERSION: 1.1", strings |-> {}]>>
           \o (IF try_scan
               THEN <<[line |-> "",
                       strings |-> UNION {PrintString(o) : o \in Linked}]>>
               ELSE <<[line |-> "dump unavailable at this moment",
                       strings |-> {}]>>)
           \o (IF shared_table # {}
               THEN <<[line |-> "# Shared strings:", strings |-> shared_table]>>
               ELSE << >>)
  /\ UNCHANGED <<shared_table, tableVars, resize_lock_owner, items_count,
                 current_size, has_work, needs_rehashing, flagVars, heapVars,
                 cellVars, threadVars, serviceVars, vmpc, num_dead, end_size>>

(* ---- the VM thread: StringTable::rehash_table at a safepoint ---- *)
\* trigger_concurrent_work without the store to _has_work
trigger_concurrent_work_Lost == has_work' = has_work
\* void StringTable::trigger_concurrent_work()
trigger_concurrent_work == has_work' = TRUE

\* do_rehash: if (!_local_table->is_safepoint_safe()) return false
\* RehashMayStart without the is_safepoint_safe test
RehashMayStart_Always == TRUE
RehashMayStart == is_safepoint_safe

\* rehash_table that never chooses growing over rehashing
GrowInsteadOfRehash_Never == FALSE
\* rehash_table: if (get_load_factor() > PREF_AVG_LIST_LEN &&
\* !_local_table->is_max_size_reached())
GrowInsteadOfRehash == LoadAbovePreferred /\ ~is_max_size_reached

\* rehash_table: else if (rehashed), the rehash is done once only
\* AlreadyRehashed without the static flag
AlreadyRehashed_Never == FALSE
AlreadyRehashed == rehashed

\* do_rehash with _alt_hash = true moved before the is_safepoint_safe test
do_rehash_AltHashFirst ==
  /\ alt_hash' = TRUE
  /\ IF RehashMayStart
     THEN /\ vmpc' = "moving"
          /\ ev' = "alarm_rehash"
          /\ UNCHANGED needs_rehashing
     ELSE /\ needs_rehashing' = FALSE
          /\ ev' = "alarm_unsafe"
          /\ UNCHANGED vmpc
\* bool StringTable::do_rehash() up to try_move_nodes_to, with the end of
\* rehash_table when it returns false at once
do_rehash ==
  IF RehashMayStart
  THEN /\ alt_hash' = TRUE
       /\ vmpc' = "moving"
       /\ ev' = "alarm_rehash"
       /\ UNCHANGED needs_rehashing
  ELSE /\ needs_rehashing' = FALSE
       /\ ev' = "alarm_unsafe"
       /\ UNCHANGED <<alt_hash, vmpc>>

\* rehash_table up to try_move_nodes_to: prefer growing, refuse a second
\* rehash, else draw a seed and enter do_rehash, which gives up when the table
\* is not safepoint safe and otherwise creates the new table and switches
\* _alt_hash on
RehashTable ==
  /\ vmpc = "idle" /\ needs_rehashing /\ AtSafepoint
  /\ IF GrowInsteadOfRehash \/ AlreadyRehashed
     THEN /\ trigger_concurrent_work
          /\ needs_rehashing' = FALSE
          /\ ev' = (IF ~GrowInsteadOfRehash
                    THEN "alarm_again" ELSE "alarm_grow")
          /\ UNCHANGED <<alt_hash, alt_hash_seed, vmpc>>
     ELSE /\ \E s \in Seeds : alt_hash_seed' = s
          /\ do_rehash
          /\ UNCHANGED has_work
  /\ UNCHANGED <<shared_table, tableVars, resize_lock_owner, items_count,
                 current_size, rehashed, heapVars, cellVars, threadVars,
                 serviceVars, num_dead,
                 end_size>>
  /\ st' = << >>

\* the same call with AltHashing::compute_seed() drawing from NumSeedsEpoch
\* seeds
RehashTableSeeds ==
  /\ vmpc = "idle" /\ needs_rehashing /\ AtSafepoint
  /\ IF GrowInsteadOfRehash \/ AlreadyRehashed
     THEN /\ trigger_concurrent_work
          /\ needs_rehashing' = FALSE
          /\ ev' = (IF ~GrowInsteadOfRehash
                    THEN "alarm_again" ELSE "alarm_grow")
          /\ UNCHANGED <<alt_hash, alt_hash_seed, vmpc>>
     ELSE /\ \E s \in 1..NumSeedsEpoch : alt_hash_seed' = s
          /\ do_rehash
          /\ UNCHANGED has_work
  /\ UNCHANGED <<shared_table, tableVars, resize_lock_owner, items_count,
                 current_size, rehashed, heapVars, cellVars, threadVars,
                 serviceVars, num_dead,
                 end_size>>
  /\ st' = << >>

\* do_rehash from try_move_nodes_to on, and the end of rehash_table: the live
\* slots move to the bucket their hash under the new seed addresses and the new
\* table becomes the table; when the nodes cannot be moved _alt_hash is reset
RehashMove ==
  /\ vmpc = "moving"
  /\ IF resize_lock_owner = "none"
     THEN /\ buckets' = [b \in Buckets |->
                 {o \in LiveSlots : Index(get_hash(o), size_log2) = b}]
          /\ FreeNodes(DeadIn(Linked))
          /\ rehashed' = TRUE
          /\ ev' = "rehashed"
          /\ UNCHANGED alt_hash
     ELSE /\ alt_hash' = FALSE
          /\ ev' = "rehash_reverted"
          /\ UNCHANGED <<buckets, released, items_count, dead, rehashed>>
  /\ needs_rehashing' = FALSE
  /\ vmpc' = "idle"
  /\ UNCHANGED <<shared_table, size_log2, new_buckets, cursor,
                 resize_lock_owner, current_size, has_work, alt_hash_seed,
                 objval, acquired, threadVars, serviceVars, num_dead,
                 end_size>>
  /\ st' = << >>

(* ---- StringTable::transfer_shared_strings_to_local_table ---- *)
\* the chain that receives the archived string of content v
SharedTarget(v) ==
  LET h == hash_string(v, alt_hash)
  IN IF Redirected(h) THEN <<"new", Index(h, size_log2 + 1)>>
     ELSE <<"old", Index(h, size_log2)>>
\* a transfer that interns nothing
SharedInto_None(S, which, b) == {}
SharedInto(S, which, b) == {0 - v : v \in {w \in S : SharedTarget(w) = <<which, b>>}}

\* _shared_table is reset, then every archived string is interned into the
\* local table (SharedStringTransfer::do_value); runs while no mutator is in a
\* call
TransferSharedStrings ==
  /\ vmpc = "idle" /\ shared_table # {}
  /\ ev' = "transfer"
  /\ \A t \in Threads : pc[t] \in {"idle", "done"}
  /\ shared_table' = {}
  /\ buckets' = [b \in Buckets |-> buckets[b] \cup SharedInto(shared_table, "old", b)]
  /\ new_buckets' = [b \in Buckets |->
                       new_buckets[b] \cup SharedInto(shared_table, "new", b)]
  /\ acquired' = [o \in AllObjs |->
                    IF o < 0 /\ (0 - o) \in shared_table
                    THEN acquired[o] + 1 ELSE acquired[o]]
  /\ items_count' = items_count + Cardinality(shared_table)
  /\ update_needs_rehash(\E v \in shared_table :
        Cardinality(ChainFor(hash_string(v, alt_hash))
                    \cup SharedInto(shared_table, SharedTarget(v)[1], SharedTarget(v)[2]))
          - 1 > ChainAlarmLen)
  /\ UNCHANGED <<size_log2, cursor, resize_lock_owner, current_size, has_work,
                 flagVars, heapVars, released, threadVars, serviceVars, vmpc,
                 num_dead,
                 end_size>>
  /\ st' = << >>

Next ==
  \/ \E t \in Threads, v \in Vals : StartLookup(t, v)
  \/ \E t \in Threads, v \in Vals, w \in BOOLEAN : StartIntern(t, v, w)
  \/ \E t \in Threads : Alloc(t)
  \/ \E t \in Threads : InsertBegin(t)
  \/ \E t \in Threads : InsertCas(t)
  \/ \E t \in Threads : GetAfterInsert(t)
  \/ \E t \in Threads : Drop(t)
  \/ \E o \in AllObjs : Collect(o)
  \/ \E n \in 0..MaxNumDead : GcNotify(n)
  \/ DoConcurrentWork
  \/ GrowChunk
  \/ CleanChunk
  \/ Cont
  \/ Commit
  \/ ScanBegin
  \/ ScanEnd
  \/ RehashTable
  \/ RehashMove
  \/ TransferSharedStrings

Spec == Init /\ [][Next]_vars

\* the steps of a caller inside do_intern
InternStep(t) ==
  Alloc(t) \/ InsertBegin(t) \/ InsertCas(t) \/ GetAfterInsert(t)

\* interns, collections and the service thread, with every caller that is
\* inside do_intern scheduled again and again; nothing is assumed about the
\* collector or the service thread
NextLive ==
  \/ \E t \in Threads, v \in Vals, w \in BOOLEAN : StartIntern(t, v, w)
  \/ \E t \in Threads : Alloc(t)
  \/ \E t \in Threads : InsertBegin(t)
  \/ \E t \in Threads : InsertCas(t)
  \/ \E t \in Threads : GetAfterInsert(t)
  \/ \E t \in Threads : Drop(t)
  \/ \E o \in AllObjs : Collect(o)
  \/ \E n \in 0..MaxNumDead : GcNotify(n)
  \/ DoConcurrentWork
  \/ GrowChunk
  \/ CleanChunk
  \/ Cont
  \/ Commit

InitLive == InitState({}, 0, MaxSizeLog2)

SpecLive ==
  /\ InitLive /\ [][NextLive]_vars
  /\ \A t \in Threads : WF_vars(InternStep(t))

\* the steps of the service thread in do_concurrent_work
ServiceStep == DoConcurrentWork \/ GrowChunk \/ CleanChunk \/ Cont \/ Commit

\* interns, collections, the collector's notifications, the alarm and the
\* service thread: the service thread, woken by the notify_all of
\* trigger_concurrent_work, keeps running while it has a step to take, and
\* the VM thread finishes the rehash it has started
NextServe ==
  \/ \E t \in Threads, v \in Vals, w \in BOOLEAN : StartIntern(t, v, w)
  \/ \E t \in Threads : Alloc(t)
  \/ \E t \in Threads : InsertBegin(t)
  \/ \E t \in Threads : InsertCas(t)
  \/ \E t \in Threads : GetAfterInsert(t)
  \/ \E t \in Threads : Drop(t)
  \/ \E o \in AllObjs : Collect(o)
  \/ \E n \in 0..MaxNumDead : GcNotify(n)
  \/ DoConcurrentWork
  \/ GrowChunk
  \/ CleanChunk
  \/ Cont
  \/ Commit
  \/ RehashTable
  \/ RehashMove

InitServe == \E lg \in 0..MaxSizeLog2 : InitState({}, lg, MaxSizeLog2)

SpecServe ==
  /\ InitServe /\ [][NextServe]_vars
  /\ WF_vars(ServiceStep) /\ WF_vars(RehashMove)

(* ---- scenarios of one caller: a part of the system each, with the ---- *)
(* ---- collector, the service thread and the VM thread running freely ---- *)
\* the values of the scenarios that fill a table by interning alone
ValsSeq == 1..NumValsSeq
Caller == CHOOSE t \in Threads : \A u \in Threads : t <= u

\* one caller interning and looking up NumValsSeq values one call after the
\* other, in an empty table with no archive and no collection of strings; the
\* collector's notifications, recorded with their num_dead, and the service
\* thread run
NextSeq ==
  \/ \E v \in ValsSeq : StartLookup(Caller, v)
  \/ \E v \in ValsSeq, w \in BOOLEAN : StartIntern(Caller, v, w)
  \/ Alloc(Caller)
  \/ InsertBegin(Caller)
  \/ InsertCas(Caller)
  \/ Drop(Caller)
  \/ \E n \in 0..MaxNumDead : GcNotifyRec(n)
  \/ DoConcurrentWork
  \/ GrowChunk
  \/ CleanChunk
  \/ Cont
  \/ Commit

SpecSeq == InitServe /\ [][NextSeq]_vars

\* the same caller with the chain-length alarm: scans of the table and
\* rehash_table at a safepoint
NextAlarm ==
  \/ \E v \in ValsSeq : StartLookup(Caller, v)
  \/ \E v \in ValsSeq, w \in BOOLEAN : StartIntern(Caller, v, w)
  \/ Alloc(Caller)
  \/ InsertBegin(Caller)
  \/ InsertCas(Caller)
  \/ Drop(Caller)
  \/ \E n \in 0..MaxNumDead : GcNotify(n)
  \/ DoConcurrentWork
  \/ GrowChunk
  \/ CleanChunk
  \/ Cont
  \/ Commit
  \/ ScanBegin
  \/ ScanEnd
  \/ RehashTable
  \/ RehashMove

SpecAlarm == InitServe /\ [][NextAlarm]_vars

\* the alarm scenario with more than one seed to draw
NextSeed ==
  \/ \E v \in ValsSeq : StartLookup(Caller, v)
  \/ \E v \in ValsSeq, w \in BOOLEAN : StartIntern(Caller, v, w)
  \/ Alloc(Caller)
  \/ InsertBegin(Caller)
  \/ InsertCas(Caller)
  \/ Drop(Caller)
  \/ \E n \in 0..MaxNumDead : GcNotify(n)
  \/ DoConcurrentWork
  \/ GrowChunk
  \/ CleanChunk
  \/ Cont
  \/ Commit
  \/ ScanBegin
  \/ ScanEnd
  \/ RehashTableSeeds
  \/ RehashMove

SpecSeed == InitServe /\ [][NextSeed]_vars

\* one caller and the collector clearing strings: dead slots stay linked
\* until the service thread reaps them
NextClean ==
  \/ \E v \in Vals : StartLookup(Caller, v)
  \/ \E v \in Vals, w \in BOOLEAN : StartIntern(Caller, v, w)
  \/ Alloc(Caller)
  \/ InsertBegin(Caller)
  \/ InsertCas(Caller)
  \/ Drop(Caller)
  \/ \E o \in AllObjs : Collect(o)
  \/ \E n \in 0..MaxNumDead : GcNotify(n)
  \/ DoConcurrentWork
  \/ GrowChunk
  \/ CleanChunk
  \/ Cont
  \/ Commit

SpecClean == InitServe /\ [][NextClean]_vars

\* the same with every intern called through intern(oop string): the caller
\* supplies its String and do_intern creates none; the archive may hold
\* strings
NextOop ==
  \/ \E v \in Vals : StartLookup(Caller, v)
  \/ \E v \in Vals : StartIntern(Caller, v, TRUE)
  \/ InsertBegin(Caller)
  \/ InsertCas(Caller)
  \/ Drop(Caller)
  \/ \E o \in AllObjs : Collect(o)
  \/ \E n \in 0..MaxNumDead : GcNotify(n)
  \/ DoConcurrentWork
  \/ GrowChunk
  \/ CleanChunk
  \/ Cont
  \/ Commit

SpecOop == Init /\ [][NextOop]_vars

\* one caller over the archive and the mutable table, and the one-time
\* transfer of the archived strings
NextArchive ==
  \/ \E v \in ValsSeq : StartLookup(Caller, v)
  \/ \E v \in ValsSeq, w \in BOOLEAN : StartIntern(Caller, v, w)
  \/ Alloc(Caller)
  \/ InsertBegin(Caller)
  \/ InsertCas(Caller)
  \/ Drop(Caller)
  \/ \E n \in 0..MaxNumDead : GcNotify(n)
  \/ DoConcurrentWork
  \/ GrowChunk
  \/ CleanChunk
  \/ Cont
  \/ Commit
  \/ TransferSharedStrings

SpecArchive == Init /\ [][NextArchive]_vars

\* every value archived and a table of 2 ^ MaxSizeLog2 buckets that may
\* double once more
InitGrow == InitState(Vals, MaxSizeLog2, MaxSizeLog2 + 1)

\* one caller, the collector and the transfer over that table: the transfer
\* and the interns fill it until it grows
NextDrain ==
  \/ \E v \in Vals : StartLookup(Caller, v)
  \/ \E v \in Vals, w \in BOOLEAN : StartIntern(Caller, v, w)
  \/ Alloc(Caller)
  \/ InsertBegin(Caller)
  \/ InsertCas(Caller)
  \/ Drop(Caller)
  \/ \E o \in AllObjs : Collect(o)
  \/ \E n \in 0..MaxNumDead : GcNotify(n)
  \/ DoConcurrentWork
  \/ GrowChunk
  \/ CleanChunk
  \/ Cont
  \/ Commit
  \/ TransferSharedStrings

SpecDrain == InitGrow /\ [][NextDrain]_vars

\* the same with the chain-length alarm: rehash and grow on one table
NextGrow ==
  \/ \E v \in Vals : StartLookup(Caller, v)
  \/ \E v \in Vals, w \in BOOLEAN : StartIntern(Caller, v, w)
  \/ Alloc(Caller)
  \/ InsertBegin(Caller)
  \/ InsertCas(Caller)
  \/ Drop(Caller)
  \/ \E o \in AllObjs : Collect(o)
  \/ \E n \in 0..MaxNumDead : GcNotify(n)
  \/ DoConcurrentWork
  \/ GrowChunk
  \/ CleanChunk
  \/ Cont
  \/ Commit
  \/ RehashTable
  \/ RehashMove
  \/ TransferSharedStrings

SpecGrow == InitGrow /\ [][NextGrow]_vars

\* one caller, the service thread and verbose dumps
NextDump ==
  \/ \E v \in ValsSeq, w \in BOOLEAN : StartIntern(Caller, v, w)
  \/ Alloc(Caller)
  \/ InsertBegin(Caller)
  \/ InsertCas(Caller)
  \/ Drop(Caller)
  \/ \E n \in 0..MaxNumDead : GcNotify(n)
  \/ DoConcurrentWork
  \/ GrowChunk
  \/ CleanChunk
  \/ Cont
  \/ Commit
  \/ Dump

SpecDump == Init /\ [][NextDump]_vars

\* a table of one bucket with each maximum size up to 2 ^ MaxSizeLog2, the
\* maximum of one bucket included
InitMax ==
  \E sh \in SUBSET (1..NumShared), es \in 0..MaxSizeLog2 : InitState(sh, 0, es)

\* one caller and the service thread on that table
NextMax ==
  \/ \E v \in ValsSeq, w \in BOOLEAN : StartIntern(Caller, v, w)
  \/ Alloc(Caller)
  \/ InsertBegin(Caller)
  \/ InsertCas(Caller)
  \/ Drop(Caller)
  \/ \E n \in 0..MaxNumDead : GcNotify(n)
  \/ DoConcurrentWork
  \/ GrowChunk
  \/ CleanChunk
  \/ Cont
  \/ Commit

SpecMax == InitMax /\ [][NextMax]_vars

(* ======================= claims ======================= *)
\* the live values of the overlay and the mutable table
AllLive == LiveSlots \cup {0 - v : v \in shared_table}
LiveWith(v) == {o \in LiveSlots : Content(o) = v}
\* no call and no maintenance in progress
Quiescent ==
  /\ \A t \in Threads : pc[t] \in {"idle", "done"}
  /\ spc = "idle" /\ vmpc = "idle" /\ resize_lock_owner = "none"

\* C1 (canonicalization): callers that hold the result of interning the same
\* content hold the same reference, and once they have returned exactly one
\* live slot of the mutable table has that content (for content that is not
\* served by the overlay).
C1_Canonicalization ==
  \A t1, t2 \in Threads :
    (/\ pc[t1] = "done" /\ pc[t2] = "done"
     /\ ret[t1] # NULL /\ ret[t2] # NULL
     /\ Content(ret[t1]) = Content(ret[t2]))
    => /\ ret[t1] = ret[t2]
       /\ Content(ret[t1]) \notin shared_table
            => Cardinality(LiveWith(Content(ret[t1]))) = 1

\* C2 (no duplicate live values): in a quiescent state no two live slots of
\* the overlay and the mutable table hold equal content.
C2_NoDuplicateLive ==
  Quiescent =>
    \A o1, o2 \in AllLive : Content(o1) = Content(o2) => o1 = o2

\* C3 (hash-epoch consistency): outside the rehash itself, every live slot
\* sits in the bucket that the hash of its content under the current seed
\* epoch addresses.
C3_HashEpochConsistency ==
  vmpc = "idle" =>
    /\ \A b \in Buckets : \A o \in buckets[b] \ dead :
         Index(get_hash(o), size_log2) = b
    /\ \A b \in Buckets : \A o \in new_buckets[b] \ dead :
         Index(get_hash(o), size_log2 + 1) = b

\* the weak-storage cell of candidate o is still in the hands of an insert
CellInFlight(o) == \E t \in Threads : pc[t] = "cas" /\ str[t] = o
\* the live candidates of content v whose insert has been decided
Candidates(v) ==
  {o \in Objs : objval[o] = v /\ acquired[o] > 0 /\ o \notin dead /\ ~CellInFlight(o)}

\* C4 (race-loser release): of the candidates that inserts acquired for the
\* same content at most one is linked; every other candidate's cell has been
\* released exactly once per acquisition, and a linked cell is not released.
C4_RaceLoserRelease ==
  \A v \in Vals :
    /\ Cardinality(Candidates(v) \cap Linked) <= 1
    /\ \A o \in Candidates(v) \ Linked : released[o] = acquired[o]
    /\ \A o \in Candidates(v) \cap Linked : released[o] = acquired[o] - 1

\* a lookup of content v succeeds: the overlay or the chain its hash addresses
\* holds a live content-equal value
LookupFinds(v) ==
  \/ v \in shared_table
  \/ Matches(ChainFor(hash_string(v, alt_hash)), v) # {}
Found(o) == LookupFinds(Content(o))

\* C5 (grow preserves the live set): at the step that commits a grow, every
\* slot that is live before the commit and still live after it is found by a
\* lookup of its content in the state right after the commit.
C5_GrowPreservesLive ==
  [][(spc = "commit" /\ task = "grow" /\ spc' = "idle")
       => \A o \in LiveSlots : (o \in LiveSlots)' => Found(o)']_vars

Selected ==
  IF ev = "prepared" THEN task
  ELSE IF ev = "abandon_grow" THEN "grow" ELSE "clean"
C7_WorkSelection ==
  [][ev' \in {"prepared", "abandon_grow", "abandon_clean"}
       => (Selected' = "grow" <=>
             (items_count > 2 * current_size /\ size_log2 < MaxSizeLog2))]_vars
\* a pass has just selected bulk delete at a load of exactly 2.0, below the
\* maximum size
C7_Witness ==
  /\ ev = "prepared" /\ task = "clean"
  /\ items_count = 2 * current_size /\ size_log2 < MaxSizeLog2

\* the steps in which rehash_table handles a chain-length alarm
AlarmEvents == {"alarm_grow", "alarm_again", "alarm_rehash", "alarm_unsafe"}
\* an alarm is handled without a rehash
NoRehash ==
  /\ vmpc' = "idle" /\ alt_hash' = alt_hash /\ buckets' = buckets
  /\ rehashed' = rehashed

\* C8 as stated (rehash at most once): at maximum size every alarm handled
\* before a rehash has succeeded, so the first one, performs the full rehash,
\* and every alarm after it performs none and requests background work.
C8_FirstAlarmRehashes ==
  [][(ev' \in AlarmEvents /\ size_log2 = MaxSizeLog2)
       => IF rehashed
          THEN NoRehash /\ alt_hash_seed' = alt_hash_seed /\ has_work'
          ELSE vmpc' = "moving"]_vars

\* C8 (rehash at most once, amended): at maximum size an alarm handled before
\* any rehash has succeeded performs the full rehash exactly when no grow or
\* bulk delete holds the table, and otherwise changes neither epoch nor
\* table; a rehash that starts completes with the alternate epoch active; once
\* a rehash has succeeded every alarm performs none (seed, epoch and table
\* unchanged) and requests background work.
C8_RehashAtMostOnce ==
  [][/\ (ev' \in AlarmEvents /\ size_log2 = MaxSizeLog2)
          => IF rehashed
             THEN NoRehash /\ alt_hash_seed' = alt_hash_seed /\ has_work'
             ELSE IF resize_lock_owner = "none"
                  THEN vmpc' = "moving" /\ alt_hash'
                  ELSE NoRehash
     /\ (vmpc = "moving" /\ vmpc' = "idle")
          => rehashed' /\ alt_hash' /\ alt_hash_seed' = alt_hash_seed
     /\ rehashed => rehashed']_vars
\* an alarm has just been handled after a rehash succeeded
C8_Witness ==
  /\ ev = "alarm_again" /\ rehashed /\ alt_hash /\ has_work
  /\ size_log2 = MaxSizeLog2

\* C9 as stated (work flag cleared only after commit): the flag goes from
\* set to clear only in the step that commits the task of the pass.
C9_ClearedOnlyAfterCommit ==
  [][(has_work /\ ~has_work') => (spc = "commit" /\ spc' = "idle")]_vars

\* C9 (amended): the flag goes from set to clear only at the end of a pass:
\* in the step that commits its task, or when its task could not prepare
\* because the table is held by someone else, and then the table is left as
\* it was; never while a task is between its prepare and its commit.
C9_ClearedAtEndOfPass ==
  [][(has_work /\ ~has_work')
       => \/ spc = "commit" /\ spc' = "idle"
          \/ /\ spc = "idle" /\ spc' = "idle"
             /\ resize_lock_owner # "none"
             /\ UNCHANGED <<tableVars, items_count, resize_lock_owner>>]_vars
\* a pass has just been abandoned under a scan, with the flag cleared
C9_Witness ==
  /\ ev \in {"abandon_grow", "abandon_clean"}
  /\ ~has_work /\ resize_lock_owner = "scan"

\* the structural operations in progress
InProgress ==
  {k \in {"grow", "clean"} : task = k /\ InFlight}
    \cup (IF vmpc = "moving" THEN {"rehash"} ELSE {})

\* C10 (one structural operation at a time): at most one of grow, bulk delete
\* and rehash is between its prepare and its commit, and the resize lock is
\* the service thread's exactly while its task is.
C10_OneStructuralOperation ==
  /\ Cardinality(InProgress) <= 1
  /\ InFlight <=> resize_lock_owner = "service"
\* an alarm has just been handled while a task was paused at its yield, and
\* no rehash was started
C10_Witness ==
  ev = "alarm_unsafe" /\ spc = "paused" /\ vmpc = "idle" /\ InProgress # {}

\* what a lookup or an insert of content v sees: the live content-equal
\* slots of the chain that the hash of v addresses
TableView(v) == Matches(ChainFor(hash_string(v, alt_hash)), v)
\* the same before a rehash, under the default hash
DefaultView(v) == Matches(buckets[Index(DefaultHash(v), size_log2)], v)

NodesInFlight == {t \in Threads : pc[t] = "cas"}

\* C12 (monotone accounting, lower bound): item_count is never below the
\* number of live slots of the mutable table: it counts every linked slot,
\* live or dead and not yet reaped, and the nodes of inserts in flight.
C12_CountAtLeastLive ==
  /\ items_count >= Cardinality(LiveSlots)
  /\ items_count = Cardinality(Linked) + Cardinality(NodesInFlight)
\* the count is above the live count: a dead slot is still linked and counted
C12_Witness ==
  /\ Linked \cap dead # {} /\ LiveSlots # {}
  /\ items_count = Cardinality(Linked)
  /\ items_count > Cardinality(LiveSlots)

\* a cell that has been released as often as it was acquired
Released(o) == acquired[o] > 0 /\ released[o] = acquired[o]

\* C13 (bulk delete reaps what it saw dead): a chunk of a bulk delete unlinks
\* and releases exactly the slots of the visited bucket that are dead when it
\* visits them and leaves the live ones and every other bucket as they are;
\* a slot whose cell is released is in no bucket, so no lookup reaches it.
C13_BulkDeleteReaps ==
  [][/\ (task = "clean" /\ spc = "chunk" /\ spc' # spc)
          => /\ \A o \in buckets[cursor] \cap dead :
                  o \notin Linked' /\ released'[o] = released[o] + 1
             /\ \A o \in buckets[cursor] \ dead : o \in buckets'[cursor]
             /\ \A b \in Buckets \ {cursor} : buckets'[b] = buckets[b]
     /\ \A o \in AllObjs : Released(o)' => o \notin Linked']_vars
\* a chunk of a bulk delete has just reaped a dead slot and left a live one
C13_Witness ==
  /\ ev = "reaped" /\ task = "clean"
  /\ \E b \in Buckets : buckets[b] \ dead # {}
  /\ \E o \in AllObjs : Released(o) /\ o \notin Linked

\* three values are interned in the table of one bucket, and nothing more:
\* no dead slot is linked and no further insert is under way
ThreeInOne ==
  /\ current_size = 1 /\ Cardinality(LiveSlots) = 3
  /\ Linked = LiveSlots /\ NodesInFlight = {}
\* every live slot is the one result of a lookup of its content
AllCanonical == \A o \in LiveSlots : TableView(Content(o)) = {o}

\* C14 as stated (scenario A): once three values are interned in the table of
\* one bucket, the work-requested flag is set.
C14_GrowRequestedByInsert == ThreeInOne => has_work

\* C14 (scenario A, amended): with three values interned in the table of one
\* bucket item_count / size is 3; the inserts request nothing, the next
\* collector notification sets the flag whatever its num_dead, and the pass
\* that runs then selects grow; when a grow commits the size has doubled and
\* every interned value is found by lookup, each as its own reference.
C14_ScenarioA ==
  [][/\ ThreeInOne' => items_count' = 3 * current_size'
     /\ (ThreeInOne /\ ev' = "gc") => has_work'
     /\ (ThreeInOne /\ ev' = "prepared") => task' = "grow"
     /\ (pc[Caller] = "cas" /\ pc'[Caller] = "done") => has_work' = has_work
     /\ ev' = "grow"
          => /\ current_size' = 2 * current_size
             /\ LiveSlots' = LiveSlots
     /\ AllCanonical']_vars
\* the grow has just committed: two buckets, three values, each found
C14_Witness ==
  /\ ev = "grow" /\ current_size = 2 /\ Cardinality(LiveSlots) = 3
  /\ {objval[o] : o \in LiveSlots} = ValsSeq
  /\ AllCanonical

\* the content that the call of thread t was given, read off the state after
\* its first step: the content of its result, or its argument when it goes on
CalledWith(t) ==
  IF pc[t] = "done"
  THEN (IF ret[t] = NULL THEN 0 ELSE Content(ret[t]))
  ELSE arg[t]

\* C15 (overlay precedence): a lookup or an intern of a content that the
\* overlay holds returns the overlay's reference in its first step and
\* changes neither the mutable table nor item_count nor the heap.
C15_OverlayPrecedence ==
  [][\A t \in Threads :
       (pc[t] = "idle" /\ pc'[t] # "idle" /\ CalledWith(t)' \in shared_table)
         => /\ pc'[t] = "done"
            /\ ret'[t] = 0 - CalledWith(t)'
            /\ UNCHANGED <<tableVars, items_count, objval, acquired>>]_vars
\* a call has returned the overlay's reference with the mutable table empty
C15_Witness ==
  /\ \E t \in Threads :
       pc[t] = "done" /\ ret[t] < 0 /\ (0 - ret[t]) \in shared_table
  /\ Linked = {} /\ items_count = 0

ReachesDoRehash ==
  /\ ev' \in AlarmEvents
  /\ ~rehashed
  /\ ~(LoadAbovePreferred /\ ~is_max_size_reached)

\* C18 (failed rehash reverts): a rehash that fails leaves the alternate-hash
\* epoch inactive, the table, its slots and the counters unchanged and
\* 'already rehashed' false; nothing remembers the failure, so every later
\* alarm that reaches do_rehash attempts the rehash again and starts it when
\* the table is safepoint safe.
C18_FailedRehashReverts ==
  [][/\ ev' \in {"alarm_unsafe", "rehash_reverted"}
          => /\ ~alt_hash' /\ ~rehashed' /\ vmpc' = "idle"
             /\ UNCHANGED <<tableVars, items_count, current_size, heapVars,
                            cellVars, has_work>>
     /\ ReachesDoRehash
         => ev' = (IF is_safepoint_safe THEN "alarm_rehash"
                                        ELSE "alarm_unsafe")]_vars
\* a rehash has just failed on a table that holds live slots, and the chain
\* alarm can ring again
C18_Witness ==
  /\ ev = "alarm_unsafe" /\ ~alt_hash /\ ~rehashed /\ ~needs_rehashing
  /\ \E b \in Buckets : Cardinality(buckets[b]) > ChainAlarmLen
  /\ LiveSlots # {}

\* a step outside every maintenance pass and every rehash
BetweenPasses ==
  /\ spc = "idle" /\ spc' = "idle"
  /\ vmpc = "idle" /\ vmpc' = "idle"
\* an insert of this step finds an equal live value and frees its node
LosesRace == \E t \in Threads : pc[t] = "cas" /\ pc'[t] = "get"

\* C19 (load factor monotone between maintenance passes): outside a pass no
\* step lowers item_count / size, lost insert races included, and item_count
\* is at least the number of live slots.
C19_LoadFactorMonotone ==
  [][BetweenPasses
       => /\ ~Gt(get_load_factor, get_load_factor')
          /\ items_count' >= Cardinality(LiveSlots')]_vars

\* C19 as the code has it: outside a pass the size is fixed and no slot is
\* unlinked; item_count never drops except by the one node that an insert
\* allocated and frees on losing its race, and it is at least the number of
\* live slots.
C19_LinkedLoadMonotone ==
  [][BetweenPasses
       => /\ current_size' = current_size
          /\ Linked \subseteq Linked'
          /\ IF LosesRace THEN items_count' = items_count - 1
                          ELSE items_count' >= items_count
          /\ items_count' >= Cardinality(LiveSlots')]_vars
\* a caller has just lost an insert race outside a pass: its node is freed
\* and the count is back at the number of linked slots
C19_Witness ==
  /\ spc = "idle" /\ vmpc = "idle" /\ ev = "none"
  /\ \E t \in Threads :
       /\ pc[t] = "get" /\ Released(str[t])
       /\ Matches(ChainFor(hash[t]), arg[t]) # {}
  /\ items_count = Cardinality(Linked) /\ NodesInFlight = {}

\* the contents of the live slots of the local table
LiveValues == {Content(o) : o \in LiveSlots}
\* the dump ends with the shared strings exactly when the overlay holds some
SharedSection ==
  IF shared_table # {}
  THEN Len(st) = 3 /\ st[3].strings = shared_table
  ELSE Len(st) = 2

\* C20 (verbose dump completeness): a verbose dump taken in any state, a grow
\* or bulk delete in flight or paused included, lists every live value of the
\* local table and then the overlay's values when the overlay is not empty.
C20_DumpCompleteness ==
  ev = "dump"
    => /\ Len(st) >= 2 /\ st[2].strings = LiveValues
       /\ SharedSection

\* C20 as the code has it: the dump lists every live value of the local table
\* when no task and no scan owns the resize lock; otherwise it lists none and
\* says that the dump is unavailable; the overlay's values follow in both
\* cases when the overlay is not empty.
C20_DumpUnlessLocked ==
  ev = "dump"
    => /\ Len(st) >= 2 /\ st[1].line = "VERSION: 1.1"
       /\ IF resize_lock_owner = "none"
          THEN st[2].line = "" /\ st[2].strings = LiveValues
          ELSE /\ st[2].line = "dump unavailable at this moment"
               /\ st[2].strings = {}
       /\ SharedSection
\* a dump taken while a task is paused with live slots in the table and
\* strings in the overlay
C20_Witness ==
  /\ ev = "dump" /\ spc = "paused" /\ resize_lock_owner = "service"
  /\ LiveSlots # {} /\ shared_table # {}
  /\ Len(st) = 3

\* a step of a lookup or intern call
MutatorStep == pc' # pc

\* C21 (mutators never restructure): no step of a lookup or intern changes
\* the bucket count, the hash epoch and its seed, or the table in use, and it
\* unlinks nothing; the bucket count changes only in the commit of a grow and
\* the epoch only in a rehash that the VM thread runs.
C21_MutatorsNeverRestructure ==
  [][/\ MutatorStep
          => /\ UNCHANGED <<size_log2, current_size, cursor, alt_hash,
                            alt_hash_seed, rehashed, serviceVars,
                            resize_lock_owner, vmpc>>
             /\ \A b \in Buckets :
                  buckets[b] \subseteq buckets'[b]
                    /\ new_buckets[b] \subseteq new_buckets'[b]
     /\ (size_log2' # size_log2 \/ current_size' # current_size)
          => ev' = "grow" /\ ~MutatorStep
     /\ alt_hash' # alt_hash
          => ev' \in {"alarm_rehash", "rehash_reverted"} /\ ~MutatorStep
     /\ alt_hash_seed' # alt_hash_seed
          => ev' \in {"alarm_rehash", "alarm_unsafe"} /\ ~MutatorStep]_vars
\* a call holds its result, a slot of the table that a grow in flight is
\* filling, under the alternate hash
C21_Witness ==
  /\ ev = "none" /\ InGrow /\ alt_hash
  /\ \E t \in Threads :
       /\ pc[t] = "done" /\ ret[t] > 0
       /\ \E b \in Buckets : ret[t] \in new_buckets[b]

\* the slots that this step unlinks
Unlinked == Linked \ Linked'

\* C22 (slot lifecycle): a step unlinks only slots whose reference is dead,
\* and only as a chunk of a bulk delete or grow or as the move of a rehash;
\* each such slot is released once by that step; no step of a lookup or
\* intern unlinks a slot, a dead one in the scanned chain included.
C22_SlotLifecycle ==
  [][/\ Unlinked \subseteq dead
     /\ Unlinked # {}
          => /\ ~MutatorStep
             /\ spc = "chunk" \/ ev' = "rehashed"
             /\ \A o \in Unlinked : released'[o] = released[o] + 1
     /\ MutatorStep => Linked \subseteq Linked' /\ dead' = dead]_vars
\* an intern has linked and returned its slot next to a dead slot of equal
\* content, which its scan met and left linked
C22_Witness ==
  /\ ev = "none" /\ ~alt_hash /\ ~rehashed
  /\ \E t \in Threads, b \in Buckets :
       /\ pc[t] = "done" /\ ret[t] \in buckets[b] \ dead
       /\ \E o \in buckets[b] \cap dead : Content(o) = Content(ret[t])

\* the table holds more than PREF_AVG_LIST_LEN items per bucket and can
\* still double
GrowthPossible ==
  /\ items_count > PREF_AVG_LIST_LEN * current_size
  /\ size_log2 < end_size

\* C23 (escalation prefers growth): an alarm handled with load_factor above
\* PREF_AVG_LIST_LEN and the table below its maximum size performs no rehash:
\* seed, epoch, table and 'already rehashed' stay as they are, concurrent
\* work is requested with the grow as the task it will select, and the
\* rehash-needed flag is cleared.
C23_EscalationPrefersGrowth ==
  [][/\ (ev' \in AlarmEvents /\ GrowthPossible) => ev' = "alarm_grow"
     /\ ev' = "alarm_grow"
          => /\ GrowthPossible
             /\ UNCHANGED <<alt_hash, alt_hash_seed, rehashed, tableVars,
                            items_count, current_size, heapVars, cellVars,
                            vmpc>>
             /\ vmpc' = "idle"
             /\ has_work' /\ SelectTask' = "grow"
             /\ ~needs_rehashing']_vars
\* the alarm has just chosen growing while no task was in flight and no
\* rehash had been done
C23_Witness ==
  /\ ev = "alarm_grow" /\ has_work /\ ~needs_rehashing
  /\ ~rehashed /\ ~alt_hash /\ spc = "idle" /\ GrowthPossible

\* the live slots of content v in the chain that hash h addresses
LiveEqual(h, v) == {o \in ChainFor(h) \ dead : Content(o) = v}

\* C24 (dead slots are non-matches): a call never returns a slot whose
\* reference is dead; a lookup misses and an insert links exactly when the
\* addressed chain holds no live slot of equal content, whatever dead slots
\* it holds, and a get that hits returns a live slot of equal content.
C24_DeadSlotsAreNonMatches ==
  [][\A t \in Threads :
       /\ (pc[t] # "done" /\ pc'[t] = "done" /\ ret'[t] # NULL)
            => ret'[t] \notin dead /\ ret'[t] \notin dead'
       /\ (pc[t] = "idle" /\ pc'[t] = "alloc")
            => LiveEqual(hash'[t], arg'[t]) = {}
       /\ (pc[t] = "idle" /\ pc'[t] = "done" /\ ret'[t] > 0)
            => ret'[t] \in
                 LiveEqual(hash_string(Content(ret'[t]), alt_hash),
                           Content(ret'[t]))
       /\ (pc[t] = "cas" /\ pc'[t] = "done")
            => LiveEqual(hash[t], Content(str[t])) = {}
       /\ (pc[t] = "cas" /\ pc'[t] = "get")
            => LiveEqual(hash[t], Content(str[t])) # {}
       /\ (pc[t] = "get" /\ pc'[t] = "done")
            => ret'[t] \in LiveEqual(hash[t], arg[t])
       /\ (pc[t] = "get" /\ pc'[t] = "insert")
            => LiveEqual(hash[t], arg[t]) = {}]_vars
\* both callers hold the live slot of a content whose dead slot is still
\* linked in the same chain: the later call scanned past the dead slot
C24_Witness ==
  /\ ~alt_hash /\ ~rehashed
  /\ \A t \in Threads : pc[t] = "done" /\ ret[t] = ret[Caller]
  /\ \E b \in Buckets :
       /\ ret[Caller] \in buckets[b] \ dead
       /\ \E o \in buckets[b] \cap dead : Content(o) = Content(ret[Caller])

\* the bucket count is a power of two within the maximum, and a grow is in
\* flight only below the maximum
SizeInBounds ==
  /\ size_log2 \in 0..end_size
  /\ current_size = 2 ^ size_log2
  /\ InGrow => size_log2 < end_size

\* C25 (table size bounds): the bucket count is always a power of two and at
\* most 2 ^ END_SIZE; the commit of a grow exactly doubles it and nothing
\* else changes it; no grow is started once the maximum is reached.
C25_TableSizeBounds ==
  [][/\ SizeInBounds /\ SizeInBounds'
     /\ ev' = "grow"
          => size_log2' = size_log2 + 1 /\ current_size' = 2 * current_size
     /\ size_log2' # size_log2 => ev' = "grow"
     /\ (ev' = "prepared" /\ task' = "grow") => size_log2 < end_size
     /\ (ev' = "prepared" /\ size_log2 = end_size) => task' = "clean"]_vars
\* a pass has started on a table that is at its maximum size with more
\* than PREF_AVG_LIST_LEN items per bucket
C25_Witness ==
  /\ ev = "prepared" /\ task = "clean" /\ size_log2 = end_size
  /\ items_count > PREF_AVG_LIST_LEN * current_size

\* the bucket of the table in use that the alternate hash of o addresses
AltBucket(o) == Index(AltHash(alt_hash_seed, Content(o)), size_log2)

\* C26 (rehash keeps size and live set): the rehash that succeeds leaves the
\* bucket count as it is, below the maximum too, and every slot that is live
\* before it is live after it, linked in the bucket that its hash under the
\* alternate seed addresses, where a lookup of its content finds it.
C26_RehashKeepsSizeAndLiveSet ==
  [][ev' = "rehashed"
       => /\ size_log2' = size_log2 /\ current_size' = current_size
          /\ alt_hash /\ alt_hash' /\ rehashed'
          /\ LiveSlots' = LiveSlots
          /\ \A o \in LiveSlots :
               /\ o \in buckets'[AltBucket(o)']
               /\ o \in TableView(Content(o))']_vars
\* a rehash has just rebuilt a table below its maximum size whose live slots
\* lie in more than one bucket
C26_Witness ==
  /\ ev = "rehashed" /\ size_log2 < end_size /\ current_size > 1
  /\ \E o, p \in LiveSlots : AltBucket(o) # AltBucket(p)

\* the steps of the service thread's position that the loops of grow and
\* clean_dead_entries allow
TaskSteps ==
  {<<"idle", "chunk">>, <<"chunk", "paused">>, <<"chunk", "commit">>,
   <<"paused", "chunk">>, <<"commit", "idle">>}

\* C27 (incremental task protocol): a task runs as prepare, chunks and
\* commit; a chunk handles one bucket and is followed by the pause when
\* buckets remain and by the commit when none remains; the next chunk runs
\* only after the yield point is passed and cont is done, which touch
\* nothing of the table, and the service thread can be stopped for a
\* safepoint while it is paused.
C27_IncrementalTaskProtocol ==
  [][/\ spc' # spc => <<spc, spc'>> \in TaskSteps
     /\ (spc = "idle" /\ spc' = "chunk")
          => ev' = "prepared" /\ cursor' = 0 /\ cursor = 0
     /\ cursor' # cursor
          => \/ /\ spc = "chunk" /\ cursor' = cursor + 1
                /\ spc' = (IF cursor + 1 < table_size THEN "paused"
                                                      ELSE "commit")
             \/ spc = "commit" /\ spc' = "idle" /\ cursor' = 0
     /\ (spc = "chunk" /\ spc' # spc) => cursor' = cursor + 1
     /\ (spc = "paused" /\ spc' # spc)
          => UNCHANGED <<tableVars, resize_lock_owner, items_count, heapVars,
                         cellVars, task, has_work>>
     /\ spc = "paused"
          => /\ cursor \in 1..(table_size - 1)
             /\ resize_lock_owner = "service"
             /\ (\A t \in Threads : pc[t] \in {"idle", "alloc", "done"})
                  => AtSafepoint
     /\ spc = "commit" => cursor = table_size]_vars
\* a grow has passed its yield point and is about to move its second bucket
C27_Witness ==
  /\ task = "grow" /\ spc = "chunk" /\ cursor = 1
  /\ buckets[cursor] # {} /\ \E b \in Buckets : new_buckets[b] # {}

\* the events of a do_concurrent_work that reaches prepare
PassEvents == {"prepared", "abandon_grow", "abandon_clean"}

\* C28 (abandoned task is a no-op): a task whose prepare fails, which it does
\* exactly when the resize lock has an owner, handles no chunk and commits
\* nothing: buckets, slots, bucket count, item count and the lock are left
\* as they are; the work request is cleared with it, so no task is tried
\* again before the request is set anew.
C28_AbandonedTaskIsNoOp ==
  [][/\ ev' \in PassEvents
          => /\ has_work /\ spc = "idle"
             /\ ev' = "prepared" <=> resize_lock_owner = "none"
     /\ ev' \in {"abandon_grow", "abandon_clean"}
          => /\ UNCHANGED <<tableVars, items_count, current_size, heapVars,
                            cellVars, serviceVars, resize_lock_owner,
                            flagVars>>
             /\ spc' = "idle" /\ task' = "none"
             /\ ~has_work']_vars
\* a grow has just been abandoned on a table that holds slots
C28_Witness ==
  /\ ev = "abandon_grow" /\ resize_lock_owner = "scan"
  /\ ~has_work /\ spc = "idle" /\ LiveSlots # {}

\* the positions of a caller inside do_intern
InDoIntern == {"alloc", "insert", "cas", "get"}

\* a caller inside do_intern can take its next step whatever the other
\* callers, the service thread and the resize lock are doing
NeverWaits ==
  \A t \in Threads :
    (pc[t] \in InDoIntern /\ vmpc = "idle") => ENABLED InternStep(t)

\* the loop of do_intern: an insert fails only on a live slot of equal
\* content, the get after it fails only when no such slot is left, and
\* while the caller is between the two such a slot goes only by a collection
RetryOnlyAfterCollection ==
  \A t \in Threads :
    /\ (pc[t] = "cas" /\ pc'[t] = "get")
         => LiveEqual(hash[t], arg[t])' # {}
    /\ (pc[t] = "get" /\ pc'[t] = "insert")
         => LiveEqual(hash[t], arg[t]) = {}
    /\ (pc[t] = "get" /\ pc'[t] = "get"
          /\ LiveEqual(hash[t], arg[t]) # {}
          /\ LiveEqual(hash[t], arg[t])' = {})
         => dead' # dead /\ dead \subseteq dead'

RECURSIVE Total(_, _, _)
Total(f, lo, hi) ==
  IF lo > hi THEN 0
  ELSE (IF lo \in AllObjs THEN f[lo] ELSE 0) + Total(f, lo + 1, hi)

\* the nodes created and not yet freed
NodesAlive ==
  Total(acquired, 0 - NumVals, MaxObjs) - Total(released, 0 - NumVals, MaxObjs)

\* the count is the number of nodes created and not freed; a string has one
\* such node while it is linked or its insert is under way and none
\* otherwise; with no insert under way the count is the number of linked
\* slots, dead ones included
CountIsNodesAlive ==
  /\ items_count = NodesAlive
  /\ \A o \in AllObjs :
       acquired[o] - released[o] =
         (IF o \in Linked \/ CellInFlight(o) THEN 1 ELSE 0)
  /\ NodesInFlight = {} => items_count = Cardinality(Linked)

\* C30 (optimistic accounting): item_added is called once with the creation
\* of a node, in a step before the one that links the slot; item_removed and
\* release are called once each, together, when a node is freed; so
\* item_count is always the number of nodes created and not freed, and
\* whenever no insert is under way it is the number of linked slots.
C30_OptimisticAccounting ==
  [][/\ CountIsNodesAlive /\ CountIsNodesAlive'
     /\ \A o \in AllObjs :
          /\ acquired'[o] - acquired[o] \in {0, 1}
          /\ released'[o] - released[o] \in {0, 1}
          /\ (MutatorStep /\ acquired'[o] > acquired[o])
               => o \notin Linked' /\ items_count' = items_count + 1
          /\ (MutatorStep /\ o \in Linked' \ Linked)
               => items_count' = items_count /\ acquired' = acquired]_vars
\* no insert is under way, a caller has lost a race and freed its node, and
\* a dead slot is still linked and counted
C30_Witness ==
  /\ NodesInFlight = {} /\ Linked \cap dead # {}
  /\ \E o \in Objs : acquired[o] = 1 /\ released[o] = 1 /\ o \notin Linked
  /\ items_count = Cardinality(Linked) /\ items_count = NodesAlive

\* the alarms that fall back to ordinary background work
FallbackEvents == {"alarm_grow", "alarm_again"}
\* a step of gc_notification whose thresholds ask for work: nothing but the
\* work request changes
GcDecision ==
  /\ ev' = "none"
  /\ \E n \in 0..MaxNumDead : NeedsWork(n)
  /\ UNCHANGED <<shared_table, tableVars, resize_lock_owner, items_count,
                 current_size, needs_rehashing, flagVars, heapVars, cellVars,
                 threadVars, serviceVars, vmpc>>

\* C31 (sole trigger): no step of a lookup or intern sets the work request,
\* whatever load factor it produces; the request is set only by a
\* gc_notification whose thresholds ask for work and by the fall-back of the
\* rehash escalation to background work, which always sets it.
C31_SoleTrigger ==
  [][/\ MutatorStep => has_work' = has_work
     /\ (has_work' /\ ~has_work) => (GcDecision \/ ev' \in FallbackEvents)
     /\ ev' \in FallbackEvents => has_work' /\ ~MutatorStep]_vars
\* the calls have returned and left more than PREF_AVG_LIST_LEN items per
\* bucket in a table that can still grow, and no work is requested
C31_Witness ==
  /\ ~has_work /\ spc = "idle" /\ ev = "none"
  /\ LoadAbovePreferred /\ ~is_max_size_reached
  /\ NodesInFlight = {}
  /\ \E t \in Threads : pc[t] = "done" /\ ret[t] \in LiveSlots

\* a work request is outstanding: the flag is set with no pass running, or an
\* alarm has just set it by its fall-back
Requested == (has_work /\ spc = "idle") \/ ev \in FallbackEvents

\* C32 (every work request is served): whenever the work request is set, by
\* gc_notification or by the fall-back of the rehash escalation, a pass of
\* do_concurrent_work that selects its task after the request follows, also
\* when the request is raised while an earlier pass is running.
C32_EveryRequestServed == Requested ~> (ev \in PassEvents)

\* the part of C32 that the code keeps: a request that is outstanding with
\* no pass running is followed by the task selection of a pass
C32_IdleRequestServed == (has_work /\ spc = "idle") ~> (ev \in PassEvents)
\* an alarm has fallen back to background work while a pass is paused at its
\* yield point
C32_RequestDuringPass == ev \in FallbackEvents /\ spc = "paused" /\ has_work

\* neither the overlay nor the mutable table holds a live value of content v
NoLiveEqual(v) == \A o \in AllLive : Content(o) # v

\* C33 (intern result): an intern of content v returns a reference that is
\* not null and whose content is v; a caller that supplies its String keeps
\* that object through do_intern, and when neither the overlay nor the
\* mutable table holds a live value of equal content the call links the
\* caller's own object in a new slot and returns it.
C33_InternResult ==
  [][\A t \in Threads :
       /\ \A v \in Vals, w \in BOOLEAN :
            (pc[t] = "idle" /\ pc'[t] # "idle" /\ StartIntern(t, v, w))
              => /\ pc'[t] = "done"
                      => ret'[t] # NULL /\ Content(ret[t])' = v
                 /\ pc'[t] # "done" => arg'[t] = v
                 /\ (w /\ pc'[t] # "done")
                      => /\ pc'[t] = "insert"
                         /\ Content(str[t])' = v
                         /\ str'[t] \notin Linked'
                 /\ NoLiveEqual(v) => pc'[t] # "done"
       /\ (pc[t] \in InDoIntern /\ pc'[t] \in InDoIntern)
            => /\ arg'[t] = arg[t]
               /\ pc[t] # "alloc" => str'[t] = str[t]
       /\ (pc[t] \in InDoIntern /\ pc'[t] = "done")
            => ret'[t] # NULL /\ Content(ret[t])' = arg[t]
       /\ (pc[t] = "cas" /\ pc'[t] # "cas" /\ NoLiveEqual(arg[t]))
            => pc'[t] = "done"
       /\ (pc[t] = "cas" /\ pc'[t] = "done")
            => /\ ret'[t] = str[t]
               /\ str[t] \notin Linked
               /\ str[t] \in LiveSlots']_vars
\* a caller holds its own String as the canonical reference: it is the only
\* slot of its content, live and linked next to a dead slot of equal content
C33_Witness ==
  \E t \in Threads :
    /\ pc[t] = "done" /\ ret[t] > 0 /\ ret[t] \in LiveSlots
    /\ LiveWith(Content(ret[t])) = {ret[t]}
    /\ Content(ret[t]) \notin shared_table
    /\ \E o \in Linked \cap dead : Content(o) = Content(ret[t])

\* C34 (lookup is read-only on contents): a lookup, hit or miss, creates and
\* unlinks no slot, changes neither item_count nor the overlay, the heap or
\* the weak storage, and returns in one step; it returns null when it finds
\* nothing, which is the case whenever no live value of the content exists,
\* and otherwise a live reference of the content.
C34_LookupReadOnly ==
  [][\A t \in Threads, v \in Vals :
       (pc'[t] = "done" /\ pc[t] = "idle" /\ StartLookup(t, v))
         => /\ UNCHANGED <<shared_table, tableVars, items_count, current_size,
                           heapVars, cellVars, resize_lock_owner, has_work>>
            /\ pc'[t] = "done"
            /\ NoLiveEqual(v) => ret'[t] = NULL
            /\ ret'[t] = NULL => ~LookupFinds(v)
            /\ ret'[t] # NULL
                 => Content(ret[t])' = v /\ ret'[t] \in AllLive']_vars
\* a lookup has missed in a table that holds a live slot and a dead slot
C34_Witness ==
  /\ \E t \in Threads : pc[t] = "done" /\ ret[t] = NULL
  /\ LiveSlots # {} /\ Linked \cap dead # {}
  /\ items_count = Cardinality(Linked)

\* C35 (cached size agrees with the table): in every state in which no grow
\* is between its prepare and the end of its commit, after a rehash too, the
\* _current_size that get_load_factor and get_dead_factor divide by is the
\* bucket count of the table in use.
C35_CachedSizeAgrees == ~InGrow => current_size = table_size
\* a table created with one bucket has doubled and has been rehashed
C35_Witness ==
  /\ ~InGrow /\ rehashed /\ alt_hash /\ vmpc = "idle"
  /\ size_log2 = 1 /\ current_size = 2 /\ LiveSlots # {}

\* the alarms that draw a seed and enter do_rehash
SeedEvents == {"alarm_rehash", "alarm_unsafe"}

\* C36 (seed stability): the seed changes only in an alarm that finds
\* 'already rehashed' false and enters do_rehash, and never while the
\* alternate hash is in use; once a rehash has succeeded the alternate hash
\* stays in use and the seed stays what it is, whatever alarms follow.
C36_SeedStability ==
  [][/\ alt_hash_seed' # alt_hash_seed
          => ev' \in SeedEvents /\ ~rehashed /\ ~alt_hash /\ ~MutatorStep
     /\ ev' \in SeedEvents => ~rehashed /\ ~alt_hash
     /\ ev' \in FallbackEvents => alt_hash_seed' = alt_hash_seed
     /\ rehashed
          => rehashed' /\ alt_hash /\ alt_hash'
               /\ alt_hash_seed' = alt_hash_seed]_vars
\* after a rehash under the second seed an alarm has fallen back to
\* background work and left the seed as it was
C36_Witness ==
  /\ ev = "alarm_again" /\ rehashed /\ alt_hash
  /\ alt_hash_seed = NumSeedsEpoch /\ LiveSlots # {}
\* an attempt that drew the first seed has given up, nothing has been
\* rehashed, and the seed is free to be drawn again
C36_SeedDrawnInVain ==
  /\ ev = "alarm_unsafe" /\ ~rehashed /\ ~alt_hash /\ alt_hash_seed = 1

====
